---- MODULE Spec2Model ----
(***************************************************************************)
(* State-machine model of the MCP IDE setup wizard (create-mcp-ide.js,     *)
(* class MCPIDESetup) and of the mcp-ide command line (class MCPIDECli).   *)
(* JavaScript strings are sequences of one-character strings, so that     *)
(* split, substring, parseInt and startsWith are computed as the code     *)
(* computes them.                                                          *)
(***************************************************************************)
EXTENDS Integers, Sequences, FiniteSets, TLC

\* ------------------------------------------------------------------ bounds
\* how many times the operator may enter an invalid API key before a valid one
MaxReprompts == 1

\* --------------------------------------------------------- JavaScript values
JSStr(s) == [t |-> "string", v |-> s]
JSNull == [t |-> "null", v |-> <<>>]
JSUndef == [t |-> "undefined", v |-> <<>>]
JSBool(b) == [t |-> "boolean", v |-> IF b THEN <<"true">> ELSE <<"false">>]

\* ToBoolean: what `!x`, `x || y`, `c ? a : b` and Array.every test
Truthy(x) ==
  CASE x.t = "string" -> x.v # <<>>
    [] x.t = "boolean" -> x.v = <<"true">>
    [] OTHER -> FALSE

\* a || b
JSOr(a, b) == IF Truthy(a) THEN a ELSE b

\* ------------------------------------------------------------ string helpers
Digits == <<"0", "1", "2", "3", "4", "5", "6", "7", "8", "9">>

IsDigit(c) == \E d \in 1..Len(Digits) : Digits[d] = c

DigitVal(c) == (CHOOSE d \in 1..Len(Digits) : Digits[d] = c) - 1

\* s.split(sep)[0]: the characters before the first separator
SplitFirst(s, sep) ==
  IF \E k \in 1..Len(s) : s[k] = sep
  THEN SubSeq(s, 1, (CHOOSE k \in 1..Len(s) :
                        s[k] = sep /\ \A j \in 1..(k - 1) : s[j] # sep) - 1)
  ELSE s

\* s.substring(1)
Substring1(s) == SubSeq(s, 2, Len(s))

\* NaN is the result of parseInt on a string with no leading digit
NaN == -1

RECURSIVE ParseDigits(_, _)
ParseDigits(s, acc) ==
  IF s = <<>> \/ ~IsDigit(Head(s)) THEN acc
  ELSE ParseDigits(Tail(s), acc * 10 + DigitVal(Head(s)))

ParseInt(s) ==
  IF s = <<>> \/ ~IsDigit(Head(s)) THEN NaN ELSE ParseDigits(s, 0)

\* comparisons with NaN are false
JSLess(a, b) == a # NaN /\ b # NaN /\ a < b
JSGeq(a, b) == a # NaN /\ b # NaN /\ a >= b

StartsWith(s, p) == Len(s) >= Len(p) /\ SubSeq(s, 1, Len(p)) = p

\* parseInt(version.split('.')[0].substring(1))
MajorVersion(version) == ParseInt(Substring1(SplitFirst(version, ".")))

MinNodeMajor == 18

\* --------------------------------------------------------------- input sets
NodeVersions ==
  { <<"v", "9", ".", "1", "1", ".", "2">>,
    <<"v", "1", "7", ".", "9", ".", "9">>,
    <<"v", "1", "8", ".", "0", ".", "0">> }

KeyPrefix == <<"s", "k", "-", "a", "n", "t", "-">>

KeyGood == KeyPrefix \o <<"1">>
KeyBad == <<"p", "k", "-", "1">>
KeyInputs == { <<>>, KeyGood, KeyBad }

IdeChoices == {"vscode", "jetbrains", "cursor", "eclipse", "xcode", "neovim"}
AiChoices == {"claude", "copilot", "both", "cursor-ai"}
UseCaseChoices == {"web", "data", "mobile", "enterprise", "game", "ai"}

Selection(ide, ai, useCase, installGlobal) ==
  [ide |-> ide, ai |-> ai, useCase |-> useCase, installGlobal |-> installGlobal]

\* the answers the operator gives to the list and confirm questions: every
\* choice of every question occurs, VS Code with each assistant
Selections ==
  { Selection("vscode", "claude", "web", TRUE),
    Selection("vscode", "copilot", "data", FALSE),
    Selection("vscode", "both", "enterprise", TRUE),
    Selection("vscode", "cursor-ai", "mobile", TRUE),
    Selection("jetbrains", "claude", "enterprise", FALSE),
    Selection("cursor", "cursor-ai", "game", TRUE),
    Selection("eclipse", "copilot", "ai", FALSE),
    Selection("xcode", "both", "mobile", TRUE),
    Selection("neovim", "claude", "data", TRUE) }

\* ------------------------------------------------------------------- state
VARIABLES
  env,        \* the machine: Node.js version string
  aux,        \* history: how fs.rm of configure() ended, and what each call
              \* of configureSettings() under ConfigureSpec left in the file
  cmd,        \* which command was started: "setup" (create-mcp-ide),
              \* "health-check", "configure", "configure --reset" or "reset"
  opts,       \* program.opts(): the --vscode and --claude flags
  pc,         \* position of the running command
  config,     \* MCPIDESetup.config
  reprompts,  \* invalid entries at the API key question while it is open
  i,          \* index of the installer step the loop is at
  sub,        \* position inside the running step
  extIdx,     \* index in installIDEExtensions' extension list
  invoked,    \* per step: how many times its fn was called
  status,     \* per step: "pending", "running", "ok", "failed"
  order,      \* the names of the steps in the order they were started
  prompts,    \* the 'Continue anyway?' prompts: [step, answer], the answer
              \* "yes", "no" or "none" (the prompt was closed unanswered)
  outcome,    \* "none", "completed" (install returned), "aborted" (exit at
              \* line 181), "failed" (the handler at line 403)
  exitCode,   \* process exit code, NoExit while running
  store,      \* ~/.mcp-intelligence and credentials.json
  project,    \* files the wizard writes in the current directory
  hc,         \* state of a healthCheck run
  verifyMsg   \* what verify() reported

vars == <<env, aux, cmd, opts, pc, config, reprompts, i, sub, extIdx, invoked, status,
          order, prompts, outcome, exitCode, store, project, hc, verifyMsg>>

NoExit == -1

\* the five step descriptors of install(), in declared order
steps ==
  << "Install MCP Intelligence", "Install IDE Extensions", "Configure Settings",
     "Set up API Keys", "Create Sample Project" >>

StepIds == 1..Len(steps)

\* ------------------------------------------------------- credential store
\* text of credentials.json: either malformed, or JSON with a root of some kind
\* and, for an object root, the values of its claude and github members
\* (JSUndef: the member is absent)
NoText == [wellFormed |-> FALSE, root |-> "none", claude |-> JSUndef, github |-> JSUndef]

\* JSON.stringify(obj, null, 2) of an object with members claude and github:
\* members whose value is undefined are left out
JSONStringify(obj) ==
  [wellFormed |-> TRUE, root |-> "object", claude |-> obj.claude, github |-> obj.github]

JSONParseThrows(text) == ~text.wellFormed

\* JSON.parse(text) for well-formed text
JSONParse(text) == [root |-> text.root, claude |-> text.claude, github |-> text.github]

\* value.member: reading a member of null throws a TypeError, a member that
\* is absent (or any member of a string, number, array) reads as undefined
MemberThrows(value) == value.root = "null"

Member(value, name) ==
  IF value.root # "object" THEN JSUndef
  ELSE IF name = "claude" THEN value.claude ELSE value.github

OwnerOnly == 384    \* 0o600
WorldReadable == 420    \* 0o644, a file created under the usual umask 0o022

NoStore == [dir |-> FALSE, file |-> FALSE, text |-> NoText, mode |-> 0, by |-> "none"]

ExternalStore(text, mode) ==
  [dir |-> TRUE, file |-> TRUE, text |-> text, mode |-> mode, by |-> "external"]

GitHubToken == <<"g", "h", "p", "_", "1">>

\* what may be on disk before the setup wizard starts
SetupStores ==
  { NoStore,
    ExternalStore(JSONStringify([claude |-> JSNull, github |-> JSStr(GitHubToken)]), WorldReadable) }

\* what may be on disk before the health check starts
InitStores ==
  SetupStores \cup
  { [NoStore EXCEPT !.dir = TRUE],
    ExternalStore(JSONStringify([claude |-> JSNull, github |-> JSNull]), OwnerOnly),
    ExternalStore(JSONStringify([claude |-> JSStr(KeyGood), github |-> JSNull]), OwnerOnly),
    ExternalStore(JSONStringify([claude |-> JSStr(<<>>), github |-> JSNull]), OwnerOnly),
    ExternalStore(JSONStringify([claude |-> JSUndef, github |-> JSUndef]), WorldReadable),
    ExternalStore([NoText EXCEPT !.wellFormed = TRUE, !.root = "null"], OwnerOnly),
    ExternalStore(NoText, OwnerOnly) }

\* -------------------------------------------------- configuration resolver
Server(name, type, arg) == [name |-> name, type |-> type, arg |-> arg]

WebServers ==
  << Server("filesystem", "fs", "./"), Server("npm", "package", "npm"),
     Server("git", "git", "./") >>

\* names every object literal inherits from Object.prototype
ObjectPrototypeNames == {"constructor", "toString", "valueOf", "hasOwnProperty", "__proto__"}

\* servers[useCase] || servers.web: the lookup finds the three own members
\* and the inherited ones, which are truthy and are returned as they are
getMCPServers(useCase) ==
  CASE useCase = "web" -> WebServers
    [] useCase = "data" ->
         << Server("jupyter", "jupyter", "./"),
            Server("database", "sql", "sqlite:///data.db"),
            Server("filesystem", "fs", "./") >>
    [] useCase = "enterprise" ->
         << Server("jira", "jira", "env.JIRA_URL"),
            Server("confluence", "confluence", "env.CONFLUENCE_URL"),
            Server("git", "git", "./") >>
    [] useCase \in ObjectPrototypeNames ->
         << Server(useCase, "inherited", "Object.prototype") >>
    [] OTHER -> WebServers

\* getConfigPath without the case for Cursor
getConfigPathNoCursor(ide) ==
  CASE ide = "vscode" -> <<".vscode", "mcp-config.json">>
    [] ide = "jetbrains" -> <<".idea", "mcp-config.json">>
    [] OTHER -> <<".mcp", "config.json">>

\* the directory and file name of the configuration document
getConfigPath(ide) ==
  CASE ide = "vscode" -> <<".vscode", "mcp-config.json">>
    [] ide = "jetbrains" -> <<".idea", "mcp-config.json">>
    [] ide = "cursor" -> <<".cursor", "mcp-config.json">>
    [] OTHER -> <<".mcp", "config.json">>

ConfigDirs == {".vscode", ".idea", ".cursor", ".mcp"}

SampleFile == "mcp-test-file.js"

\* content of a file of the project directory
Absent == [kind |-> "absent", mode |-> "", servers |-> <<>>, sample |-> ""]

ConfigDoc(useCase) ==
  [kind |-> "config",
   mode |-> IF useCase = "enterprise" THEN "accuracy" ELSE "balanced",
   servers |-> getMCPServers(useCase),
   sample |-> ""]

\* samples[useCase] || samples.web
SampleDoc(useCase) ==
  [kind |-> "sample", mode |-> "", servers |-> <<>>,
   sample |-> IF useCase \in {"web", "data", "mobile"} THEN useCase ELSE "web"]

NoProject ==
  [npm |-> "none", exts |-> {}, extFailed |-> {}, dirs |-> {},
   files |-> [f \in ConfigDirs \cup {SampleFile} |-> Absent]]

\* the extension list installIDEExtensions builds for VS Code
Extensions(ai) ==
  <<"mcp.mcp-intelligence">>
    \o (IF ai \in {"claude", "both"} THEN <<"Anthropic.claude-vscode">> ELSE <<>>)
    \o (IF ai \in {"copilot", "both"} THEN <<"GitHub.copilot">> ELSE <<>>)

\* ------------------------------------------------------------- health check
checks ==
  << "Node.js Version", "VS Code", "Claude Extension", "MCP Intelligence",
     "API Keys", "Network" >>

CheckIds == 1..Len(checks)

NoHealthCheck ==
  [idx |-> 0, results |-> <<>>, report |-> <<>>, calls |-> [c \in CheckIds |-> 0],
   queries |-> <<>>, answers |-> <<>>, ret |-> JSUndef, caller |-> "none",
   exit |-> NoExit]

\* ------------------------------------------------------------------- Init
EmptyConfig ==
  [ide |-> "undefined", ai |-> "undefined", useCase |-> "undefined",
   installGlobal |-> JSUndef, apiKey |-> JSUndef]

QuickConfig == [EmptyConfig EXCEPT !.ide = "vscode", !.ai = "claude", !.useCase = "web"]

Quick == opts.vscode /\ opts.claude

\* the commands that end in configure()
ConfigureCmds == {"configure", "configure --reset", "reset"}

NoAux == [rm |-> "none", calls |-> <<>>]

\* the store a configure or reset command finds
OldStore ==
  ExternalStore(JSONStringify([claude |-> JSNull, github |-> JSStr(GitHubToken)]), WorldReadable)

Init ==
  /\ env \in [version : NodeVersions]
  /\ aux = NoAux
  /\ cmd \in {"setup", "health-check"} \cup ConfigureCmds
  /\ opts \in [vscode : BOOLEAN, claude : BOOLEAN]
  /\ (opts.claude => opts.vscode)
  /\ (cmd # "setup" => opts = [vscode |-> FALSE, claude |-> FALSE])
  /\ (cmd \in ConfigureCmds =>
        store = OldStore /\ env.version = <<"v", "1", "8", ".", "0", ".", "0">>)
  /\ pc = IF cmd \in ConfigureCmds THEN "configure" ELSE "main"
  /\ config = EmptyConfig
  /\ reprompts = 0
  /\ i = 0
  /\ sub = ""
  /\ extIdx = 0
  /\ invoked = [k \in StepIds |-> 0]
  /\ status = [k \in StepIds |-> "pending"]
  /\ order = <<>>
  /\ prompts = <<>>
  /\ outcome = "none"
  /\ exitCode = NoExit
  /\ store \in InitStores
  /\ (cmd = "setup" => store \in SetupStores)
  /\ project = NoProject
  /\ hc = NoHealthCheck
  /\ verifyMsg = "none"

\* ------------------------------------------------------------ setup wizard
SetupVars ==
  <<config, reprompts, i, sub, extIdx, invoked, status, order, prompts, outcome>>

\* process.exit(code)
Exit(code) == exitCode' = code /\ pc' = "exited"

\* run(), lines 33-41: both flags given, the selection is fixed and install()
\* is called directly
RunQuick ==
  /\ pc = "main" /\ cmd # "health-check" /\ Quick
  /\ config' = QuickConfig
  /\ pc' = "install"
  /\ UNCHANGED <<env, aux, cmd, opts, reprompts, i, sub, extIdx, invoked, status, order,
                 prompts, outcome, exitCode, store, project, hc, verifyMsg>>

\* run(), line 44
RunInteractive ==
  /\ pc = "main" /\ cmd # "health-check" /\ ~Quick
  /\ pc' = "detect"
  /\ UNCHANGED <<env, aux, cmd, opts, exitCode, store, project, hc, verifyMsg>>
  /\ UNCHANGED SetupVars

\* detectEnvironment(): the three editor probes only feed a console line and a
\* prompt default that is 'vscode' either way; the Node.js check exits
DetectEnvironment ==
  /\ pc = "detect"
  /\ IF JSLess(MajorVersion(env.version), MinNodeMajor)
     THEN Exit(1)
     ELSE pc' = "ask" /\ UNCHANGED exitCode
  /\ UNCHANGED <<env, aux, cmd, opts, store, project, hc, verifyMsg>>
  /\ UNCHANGED SetupVars

\* askQuestions(): the list and confirm questions; the API key question is
\* asked only when its `when` holds, otherwise answers.apiKey stays undefined
AskQuestions ==
  /\ pc = "ask"
  /\ \E a \in Selections :
       /\ a.ide \in IdeChoices /\ a.ai \in AiChoices /\ a.useCase \in UseCaseChoices
       /\ config' = [ide |-> a.ide, ai |-> a.ai, useCase |-> a.useCase,
                     installGlobal |-> JSBool(a.installGlobal), apiKey |-> JSUndef]
       /\ pc' = IF a.ai = "claude" \/ a.ai = "both" THEN "askKey" ELSE "install"
  /\ UNCHANGED <<env, aux, cmd, opts, reprompts, i, sub, extIdx, invoked, status, order,
                 prompts, outcome, exitCode, store, project, hc, verifyMsg>>

\* the validate function of the apiKey question
ValidateKey(input) == input = <<>> \/ StartsWith(input, KeyPrefix)

\* the API key question: an input that fails validation is asked again
AskKey ==
  /\ pc = "askKey"
  /\ \E input \in KeyInputs :
       IF ValidateKey(input)
       THEN /\ config' = [config EXCEPT !.apiKey = JSStr(input)]
            /\ pc' = "install"
            /\ reprompts' = 0
       ELSE /\ reprompts < MaxReprompts
            /\ reprompts' = reprompts + 1
            /\ UNCHANGED <<config, pc>>
  /\ UNCHANGED <<env, aux, cmd, opts, i, sub, extIdx, invoked, status, order,
                 prompts, outcome, exitCode, store, project, hc, verifyMsg>>

\* inquirer.prompt rejects (the terminal is closed under the questionnaire):
\* run() rejects and the handler at lines 402-405 exits with 1
AskRejected ==
  /\ pc \in {"ask", "askKey"}
  /\ outcome' = "failed"
  /\ Exit(1)
  /\ UNCHANGED <<env, aux, cmd, opts, config, reprompts, i, sub, extIdx, invoked, status,
                 order, prompts, store, project, hc, verifyMsg>>

\* ------------------------------------------------------- installer pipeline
FirstSub(k) ==
  CASE k = 1 -> "s1_exec"
    [] k = 2 -> "s2_switch"
    [] k = 3 -> "s3_mkdir"
    [] k = 4 -> "s4_check"
    [] k = 5 -> "s5_write"

\* install(), lines 152-160
InstallBegin ==
  /\ pc = "install"
  /\ i' = 1
  /\ pc' = "loop"
  /\ UNCHANGED <<env, aux, cmd, opts, config, reprompts, sub, extIdx, invoked, status,
                 order, prompts, outcome, exitCode, store, project, hc, verifyMsg>>

\* StartStep without the await at line 165: the loop goes on to the next
\* descriptor while the step it started is still running
StartStepNoAwait ==
  /\ pc = "loop" /\ i <= Len(steps)
  /\ invoked' = [invoked EXCEPT ![i] = @ + 1]
  /\ status' = [status EXCEPT ![i] = "running"]
  /\ order' = Append(order, steps[i])
  /\ i' = i + 1
  /\ UNCHANGED <<env, aux, cmd, opts, pc, config, reprompts, sub, extIdx, prompts, outcome,
                 exitCode, store, project, hc, verifyMsg>>

\* lines 162-165: the loop takes the next descriptor and calls its fn
StartStep ==
  /\ pc = "loop" /\ i <= Len(steps)
  /\ invoked' = [invoked EXCEPT ![i] = @ + 1]
  /\ status' = [status EXCEPT ![i] = "running"]
  /\ order' = Append(order, steps[i])
  /\ sub' = FirstSub(i)
  /\ extIdx' = 1
  /\ pc' = "step"
  /\ UNCHANGED <<env, aux, cmd, opts, config, reprompts, i, prompts, outcome, exitCode,
                 store, project, hc, verifyMsg>>

\* line 166: step.fn() resolved; the loop moves on
StepReturn ==
  /\ status' = [status EXCEPT ![i] = "ok"]
  /\ i' = i + 1
  /\ sub' = ""
  /\ pc' = "loop"
  /\ UNCHANGED <<env, aux, cmd, opts, config, reprompts, extIdx, invoked, order, prompts,
                 outcome, exitCode, hc, verifyMsg>>

\* StepThrow where the loop goes on without asking
StepThrowNoPrompt ==
  /\ status' = [status EXCEPT ![i] = "failed"]
  /\ sub' = ""
  /\ i' = i + 1
  /\ pc' = "loop"
  /\ UNCHANGED <<env, aux, cmd, opts, config, reprompts, extIdx, invoked, order, prompts,
                 outcome, exitCode, hc, verifyMsg>>

\* lines 167-178: step.fn() rejected; the failure is shown and the prompt opens
StepThrow ==
  /\ status' = [status EXCEPT ![i] = "failed"]
  /\ sub' = ""
  /\ pc' = "prompt"
  /\ UNCHANGED <<env, aux, cmd, opts, config, reprompts, i, extIdx, invoked, order, prompts,
                 outcome, exitCode, hc, verifyMsg>>

\* AnswerPrompt without the exit at lines 180-182: a refusal is not acted on
AnswerPromptIgnoresNo ==
  /\ pc = "prompt"
  /\ \E continueAnyway \in BOOLEAN :
       prompts' = Append(prompts, [step |-> i, answer |->
                                    IF continueAnyway THEN "yes" ELSE "no"])
  /\ i' = i + 1
  /\ pc' = "loop"
  /\ UNCHANGED <<env, aux, cmd, opts, config, reprompts, sub, extIdx, invoked, status, order,
                 outcome, exitCode, store, project, hc, verifyMsg>>

\* AnswerPrompt where an accepted failure runs the failed step again
AnswerPromptRetries ==
  /\ pc = "prompt"
  /\ \E continueAnyway \in BOOLEAN :
       /\ prompts' = Append(prompts, [step |-> i, answer |->
                                         IF continueAnyway THEN "yes" ELSE "no"])
       /\ IF ~continueAnyway
          THEN /\ outcome' = "aborted"
               /\ Exit(1)
          ELSE /\ pc' = "loop"
               /\ UNCHANGED <<outcome, exitCode>>
  /\ UNCHANGED <<env, aux, cmd, opts, config, reprompts, i, sub, extIdx, invoked, status, order,
                 store, project, hc, verifyMsg>>

\* lines 171-183: the operator answers 'Continue anyway?'
AnswerPrompt ==
  /\ pc = "prompt"
  /\ \E continueAnyway \in BOOLEAN :
       /\ prompts' = Append(prompts, [step |-> i, answer |->
                                         IF continueAnyway THEN "yes" ELSE "no"])
       /\ IF ~continueAnyway
          THEN /\ outcome' = "aborted"
               /\ Exit(1)
               /\ UNCHANGED i
          ELSE /\ i' = i + 1
               /\ pc' = "loop"
               /\ UNCHANGED <<outcome, exitCode>>
  /\ UNCHANGED <<env, aux, cmd, opts, config, reprompts, sub, extIdx, invoked, status, order,
                 store, project, hc, verifyMsg>>

\* the 'Continue anyway?' prompt rejects: install() and run() reject and the
\* handler at lines 402-405 exits with 1
PromptRejected ==
  /\ pc = "prompt"
  /\ prompts' = Append(prompts, [step |-> i, answer |-> "none"])
  /\ outcome' = "failed"
  /\ Exit(1)
  /\ UNCHANGED <<env, aux, cmd, opts, config, reprompts, i, sub, extIdx, invoked, status,
                 order, store, project, hc, verifyMsg>>

\* InstallReturn with the loop left one descriptor early
InstallReturnEarly ==
  /\ pc = "loop" /\ i >= Len(steps)
  /\ outcome' = "completed"
  /\ pc' = IF Quick THEN "return" ELSE "verify"
  /\ UNCHANGED <<env, aux, cmd, opts, config, reprompts, i, sub, extIdx, invoked, status,
                 order, prompts, exitCode, store, project, hc, verifyMsg>>

\* line 185: the loop is over and install() returns to run()
InstallReturn ==
  /\ pc = "loop" /\ i > Len(steps)
  /\ outcome' = "completed"
  /\ pc' = IF Quick THEN "return" ELSE "verify"
  /\ UNCHANGED <<env, aux, cmd, opts, config, reprompts, i, sub, extIdx, invoked, status,
                 order, prompts, exitCode, store, project, hc, verifyMsg>>

\* installMCPIntelligence(): one npm install, global or local
InstallMCPIntelligence ==
  /\ pc = "step" /\ sub = "s1_exec"
  /\ \E ok \in BOOLEAN :
       IF ok
       THEN /\ project' = [project EXCEPT !.npm =
                             IF Truthy(config.installGlobal) THEN "global" ELSE "local"]
            /\ StepReturn
       ELSE /\ UNCHANGED project
            /\ StepThrow
  /\ UNCHANGED store

\* installIDEExtensions(), the switch on ide: only VS Code installs anything
InstallIDEExtensions ==
  /\ pc = "step" /\ sub = "s2_switch"
  /\ IF config.ide = "vscode"
     THEN /\ sub' = "s2_ext"
          /\ UNCHANGED <<env, aux, cmd, opts, pc, config, reprompts, i, extIdx, invoked,
                         status, order, prompts, outcome, exitCode, hc, verifyMsg>>
     ELSE StepReturn
  /\ UNCHANGED <<store, project>>

\* lines 218-224: one `code --install-extension`; a failure is caught and dropped
InstallExtension ==
  /\ pc = "step" /\ sub = "s2_ext"
  /\ IF extIdx <= Len(Extensions(config.ai))
     THEN /\ \E ok \in BOOLEAN :
               project' = IF ok
                          THEN [project EXCEPT !.exts = @ \cup {Extensions(config.ai)[extIdx]}]
                          ELSE [project EXCEPT !.extFailed = @ \cup {Extensions(config.ai)[extIdx]}]
          /\ extIdx' = extIdx + 1
          /\ UNCHANGED <<env, aux, cmd, opts, pc, config, reprompts, i, sub, invoked,
                         status, order, prompts, outcome, exitCode, hc, verifyMsg>>
     ELSE /\ UNCHANGED project
          /\ StepReturn
  /\ UNCHANGED store

\* configureSettings(), line 259: mkdir of the parent directory, recursive
ConfigureMkdir ==
  /\ pc = "step" /\ sub = "s3_mkdir"
  /\ \E ok \in BOOLEAN :
       IF ok
       THEN /\ project' = [project EXCEPT !.dirs = @ \cup {getConfigPath(config.ide)[1]}]
            /\ sub' = "s3_write"
            /\ UNCHANGED <<env, aux, cmd, opts, pc, config, reprompts, i, extIdx, invoked,
                           status, order, prompts, outcome, exitCode, hc, verifyMsg>>
       ELSE /\ UNCHANGED project
            /\ StepThrow
  /\ UNCHANGED store

\* ConfigureWrite that merges the new server list into a document already there
ConfigureWriteMerges ==
  /\ pc = "step" /\ sub = "s3_write"
  /\ \E ok \in BOOLEAN :
       IF ok
       THEN /\ project' = [project EXCEPT !.files[getConfigPath(config.ide)[1]] =
                             [ConfigDoc(config.useCase) EXCEPT !.servers =
                                project.files[getConfigPath(config.ide)[1]].servers \o @]]
            /\ StepReturn
       ELSE /\ UNCHANGED project
            /\ StepThrow
  /\ UNCHANGED store

\* configureSettings(), line 260: the document replaces the file
ConfigureWrite ==
  /\ pc = "step" /\ sub = "s3_write"
  /\ \E ok \in BOOLEAN :
       IF ok
       THEN /\ project' = [project EXCEPT !.files[getConfigPath(config.ide)[1]] =
                             ConfigDoc(config.useCase)]
            /\ StepReturn
       ELSE /\ UNCHANGED project
            /\ StepThrow
  /\ UNCHANGED store

\* Credentials that keeps the key out of the claude member
CredentialsNoKey(apiKey, ai) ==
  [claude |-> JSNull, github |-> JSNull]

\* the object setupAPIKeys() builds at lines 275-278
Credentials(apiKey, ai) ==
  [claude |-> IF ai = "claude" \/ ai = "both" THEN apiKey ELSE JSNull,
   github |-> JSNull]

\* SetupAPIKeysCheck without the early return at lines 266-269
SetupAPIKeysCheckNoGuard ==
  /\ pc = "step" /\ sub = "s4_check"
  /\ sub' = "s4_mkdir"
  /\ UNCHANGED <<env, aux, cmd, opts, pc, config, reprompts, i, extIdx, invoked,
                 status, order, prompts, outcome, exitCode, hc, verifyMsg>>
  /\ UNCHANGED <<store, project>>

\* setupAPIKeys(), lines 266-269: without a key the step warns and returns
SetupAPIKeysCheck ==
  /\ pc = "step" /\ sub = "s4_check"
  /\ IF ~Truthy(config.apiKey)
     THEN StepReturn
     ELSE /\ sub' = "s4_mkdir"
          /\ UNCHANGED <<env, aux, cmd, opts, pc, config, reprompts, i, extIdx, invoked,
                         status, order, prompts, outcome, exitCode, hc, verifyMsg>>
  /\ UNCHANGED <<store, project>>

\* line 273: mkdir of ~/.mcp-intelligence, recursive
SetupAPIKeysMkdir ==
  /\ pc = "step" /\ sub = "s4_mkdir"
  /\ \E ok \in BOOLEAN :
       IF ok
       THEN /\ store' = [store EXCEPT !.dir = TRUE]
            /\ sub' = "s4_write"
            /\ UNCHANGED <<env, aux, cmd, opts, pc, config, reprompts, i, extIdx, invoked,
                           status, order, prompts, outcome, exitCode, hc, verifyMsg>>
       ELSE /\ UNCHANGED store
            /\ StepThrow
  /\ UNCHANGED project

\* lines 280-283: credentials.json is replaced; a new file gets the default mode,
\* an existing file keeps its mode
SetupAPIKeysWrite ==
  /\ pc = "step" /\ sub = "s4_write"
  /\ \E ok \in BOOLEAN :
       IF ok
       THEN /\ store' = [store EXCEPT
                           !.file = TRUE,
                           !.text = JSONStringify(Credentials(config.apiKey, config.ai)),
                           !.mode = IF store.file THEN store.mode ELSE WorldReadable,
                           !.by = "pipeline"]
            /\ sub' = "s4_chmod"
            /\ UNCHANGED <<env, aux, cmd, opts, pc, config, reprompts, i, extIdx, invoked,
                           status, order, prompts, outcome, exitCode, hc, verifyMsg>>
       ELSE /\ UNCHANGED store
            /\ StepThrow
  /\ UNCHANGED project

\* line 286: chmod 0o600
SetupAPIKeysChmod ==
  /\ pc = "step" /\ sub = "s4_chmod"
  /\ \E ok \in BOOLEAN :
       IF ok
       THEN /\ store' = [store EXCEPT !.mode = OwnerOnly]
            /\ StepReturn
       ELSE /\ UNCHANGED store
            /\ StepThrow
  /\ UNCHANGED project

\* createSampleProject(): one writeFile
CreateSampleProject ==
  /\ pc = "step" /\ sub = "s5_write"
  /\ \E ok \in BOOLEAN :
       IF ok
       THEN /\ project' = [project EXCEPT !.files[SampleFile] = SampleDoc(config.useCase)]
            /\ StepReturn
       ELSE /\ UNCHANGED project
            /\ StepThrow
  /\ UNCHANGED store

\* --------------------------------------------------------- health aggregator
\* a check result {success, message}; a message is a template and the string
\* substituted into it
Result(success, template, arg) ==
  [success |-> success, message |-> [text |-> template, arg |-> arg]]

\* PushResult with a loop that stops at the first failed check
PushResultBreaks(h, r) ==
  [h EXCEPT !.results = Append(@, r),
            !.report = Append(@, [name |-> checks[h.idx], ok |-> Truthy(r.success),
                                  message |-> r.message]),
            !.idx = IF Truthy(r.success) THEN @ + 1 ELSE Len(checks) + 1]

\* lines 440-447: the result of check hc.idx is rendered as a row and pushed
PushResult(h, r) ==
  [h EXCEPT !.results = Append(@, r),
            !.report = Append(@, [name |-> checks[h.idx], ok |-> Truthy(r.success),
                                  message |-> r.message]),
            !.idx = @ + 1]

\* check.check() is called for the check at hc.idx
Called(h) == [h EXCEPT !.calls[h.idx] = @ + 1]

\* Every that looks at the last result only
EveryLast(results) ==
  results = <<>> \/ Truthy(results[Len(results)].success)

\* results.every(r => r.success)
RECURSIVE Every(_)
Every(results) ==
  IF results = <<>> THEN TRUE
  ELSE IF ~Truthy(Head(results).success) THEN FALSE
  ELSE Every(Tail(results))

HealthVars == <<env, aux, cmd, opts, exitCode, store, project, verifyMsg>>

\* the health-check command, lines 647-649: a new MCPIDECli runs healthCheck()
HealthCheckCommand ==
  /\ pc = "main" /\ cmd = "health-check"
  /\ hc' = [NoHealthCheck EXCEPT !.caller = "cli", !.idx = 1]
  /\ pc' = "hc"
  /\ UNCHANGED HealthVars
  /\ UNCHANGED SetupVars

\* checkNode()
checkNode(version) ==
  IF JSGeq(MajorVersion(version), MinNodeMajor)
  THEN Result(JSBool(TRUE), "v%s", version)
  ELSE Result(JSBool(FALSE), "v%s (18+ required)", version)

CheckNode ==
  /\ pc = "hc" /\ hc.idx = 1
  /\ hc' = PushResult(Called(hc), checkNode(env.version))
  /\ UNCHANGED <<pc>>
  /\ UNCHANGED HealthVars
  /\ UNCHANGED SetupVars

\* checkVSCode(): `code --version` exits zero or the call throws
CheckVSCode ==
  /\ pc = "hc" /\ hc.idx = 2
  /\ \E ok \in BOOLEAN :
       hc' = PushResult(Called(hc),
                        IF ok THEN Result(JSBool(TRUE), "Installed", <<>>)
                        ELSE Result(JSBool(FALSE), "Not found", <<>>))
  /\ UNCHANGED <<pc>>
  /\ UNCHANGED HealthVars
  /\ UNCHANGED SetupVars

ExtensionIds == {"Anthropic.claude-vscode", "mcp.mcp-intelligence", "GitHub.copilot"}

\* lines 483-488, for a listing that holds the extensions `listed`
checkClaudeExtension(listed) ==
  IF "Anthropic.claude-vscode" \in listed \/ "mcp.mcp-intelligence" \in listed
  THEN Result(JSBool(TRUE), "Installed", <<>>)
  ELSE Result(JSBool(FALSE), "Not installed", <<>>)

\* checkClaudeExtension(): `code --list-extensions` prints a listing or throws
CheckClaudeExtension ==
  /\ pc = "hc" /\ hc.idx = 3
  /\ \/ \E listed \in SUBSET ExtensionIds :
          hc' = PushResult(Called(hc), checkClaudeExtension(listed))
     \/ hc' = PushResult(Called(hc), Result(JSBool(FALSE), "Unable to check", <<>>))
  /\ UNCHANGED <<pc>>
  /\ UNCHANGED HealthVars
  /\ UNCHANGED SetupVars

\* CheckMCPGlobal that reports 'Not installed' as soon as the global query fails
CheckMCPGlobalNoFallback ==
  /\ pc = "hc" /\ hc.idx = 4 /\ hc.queries = <<>>
  /\ \E ok \in BOOLEAN :
       hc' = PushResult([Called(hc) EXCEPT !.queries = <<"global">>, !.answers = <<ok>>],
                        IF ok THEN Result(JSBool(TRUE), "Installed", <<>>)
                        ELSE Result(JSBool(FALSE), "Not installed", <<>>))
  /\ UNCHANGED <<pc>>
  /\ UNCHANGED HealthVars
  /\ UNCHANGED SetupVars

\* checkMCPIntelligence(), lines 495-498: `npm list -g`
CheckMCPGlobal ==
  /\ pc = "hc" /\ hc.idx = 4 /\ hc.queries = <<>>
  /\ \E ok \in BOOLEAN :
       IF ok
       THEN hc' = PushResult([Called(hc) EXCEPT !.queries = <<"global">>,
                                                !.answers = <<ok>>],
                             Result(JSBool(TRUE), "Installed", <<>>))
       ELSE hc' = [Called(hc) EXCEPT !.queries = <<"global">>, !.answers = <<ok>>]
  /\ UNCHANGED <<pc>>
  /\ UNCHANGED HealthVars
  /\ UNCHANGED SetupVars

\* checkMCPIntelligence(), lines 499-504: `npm list` after the global query threw
CheckMCPLocal ==
  /\ pc = "hc" /\ hc.idx = 4 /\ hc.queries = <<"global">>
  /\ \E ok \in BOOLEAN :
       hc' = PushResult([hc EXCEPT !.queries = <<"global", "local">>,
                                   !.answers = Append(@, ok)],
                        IF ok THEN Result(JSBool(TRUE), "Installed (local)", <<>>)
                        ELSE Result(JSBool(FALSE), "Not installed", <<>>))
  /\ UNCHANGED <<pc>>
  /\ UNCHANGED HealthVars
  /\ UNCHANGED SetupVars

NotConfigured == Result(JSBool(FALSE), "Not configured", <<>>)

\* KeysResult that reads the claude member only
KeysResultClaudeOnly(creds) ==
  LET hasKey == Member(creds, "claude")
  IN  Result(hasKey, IF Truthy(hasKey) THEN "Configured" ELSE "Not configured", <<>>)

\* lines 513-517 for the parsed document creds
KeysResult(creds) ==
  LET hasKey == JSOr(Member(creds, "claude"), Member(creds, "github"))
  IN  Result(hasKey, IF Truthy(hasKey) THEN "Configured" ELSE "Not configured", <<>>)

\* checkAPIKeys() on the credential store s: access, readFile, JSON.parse and
\* the member reads are inside the try; whatever throws gives 'Not configured'
checkAPIKeys(s) ==
  IF ~s.file THEN NotConfigured
  ELSE IF JSONParseThrows(s.text) THEN NotConfigured
  ELSE IF MemberThrows(JSONParse(s.text)) THEN NotConfigured
  ELSE KeysResult(JSONParse(s.text))

CheckAPIKeys ==
  /\ pc = "hc" /\ hc.idx = 5
  /\ hc' = PushResult(Called(hc), checkAPIKeys(store))
  /\ UNCHANGED <<pc>>
  /\ UNCHANGED HealthVars
  /\ UNCHANGED SetupVars

\* checkNetwork()
CheckNetwork ==
  /\ pc = "hc" /\ hc.idx = 6
  /\ hc' = PushResult(Called(hc), Result(JSBool(TRUE), "Connected", <<>>))
  /\ UNCHANGED <<pc>>
  /\ UNCHANGED HealthVars
  /\ UNCHANGED SetupVars

\* lines 450-459: the loop is over, healthCheck() returns allSuccess
HealthCheckReturn ==
  /\ pc = "hc" /\ hc.idx > Len(checks)
  /\ hc' = [hc EXCEPT !.ret = JSBool(Every(hc.results))]
  /\ pc' = "hcDone"
  /\ UNCHANGED HealthVars
  /\ UNCHANGED SetupVars

\* the exit code of the health-check command for the value healthCheck()
\* returned: the action at lines 647-650 awaits the call and drops the value
HealthCheckExitCode(ret) == 0

\* the health-check process ends; under verify() control goes back to execSync
HealthCheckCommandExit ==
  /\ pc = "hcDone"
  /\ hc' = [hc EXCEPT !.exit = HealthCheckExitCode(hc.ret)]
  /\ IF hc.caller = "cli"
     THEN Exit(HealthCheckExitCode(hc.ret))
     ELSE pc' = "verifyResult" /\ UNCHANGED exitCode
  /\ UNCHANGED <<env, aux, cmd, opts, store, project, verifyMsg>>
  /\ UNCHANGED SetupVars

\* ------------------------------------------------------------ verification
\* verify(), line 318: execSync starts `mcp-ide health-check`
VerifySpawn ==
  /\ pc = "verify"
  /\ hc' = [NoHealthCheck EXCEPT !.caller = "verify", !.idx = 1]
  /\ pc' = "hc"
  /\ UNCHANGED HealthVars
  /\ UNCHANGED SetupVars

\* verify(), lines 323-327: execSync throws because mcp-ide cannot be started
VerifyNotFound ==
  /\ pc = "verify"
  /\ verifyMsg' = "Health check needs attention"
  /\ pc' = "nextSteps"
  /\ UNCHANGED <<env, aux, cmd, opts, exitCode, store, project, hc>>
  /\ UNCHANGED SetupVars

\* verify(), lines 318-327: execSync returns on exit code 0 and throws otherwise
VerifyResult ==
  /\ pc = "verifyResult"
  /\ verifyMsg' = IF hc.exit = 0 THEN "Health check passed"
                  ELSE "Health check needs attention"
  /\ pc' = "nextSteps"
  /\ UNCHANGED <<env, aux, cmd, opts, exitCode, store, project, hc>>
  /\ UNCHANGED SetupVars

\* showNextSteps(): console output only
ShowNextSteps ==
  /\ pc = "nextSteps"
  /\ pc' = "return"
  /\ UNCHANGED <<env, aux, cmd, opts, exitCode, store, project, hc, verifyMsg>>
  /\ UNCHANGED SetupVars

\* run() resolved: the process ends with exit code 0
RunReturn ==
  /\ pc = "return"
  /\ Exit(0)
  /\ UNCHANGED <<env, aux, cmd, opts, store, project, hc, verifyMsg>>
  /\ UNCHANGED SetupVars

\* ---------------------------------------------------------------- configure
\* the reset argument configure() gets: options.reset of the configure command
\* (line 667), true from the reset command (line 705)
ResetArg == cmd \in {"configure --reset", "reset"}

\* ConfigureRm without the try/catch around fs.rm: the error ends the command
ConfigureRmRethrows ==
  /\ pc = "configure"
  /\ IF ResetArg
     THEN \E ok \in BOOLEAN :
            /\ store' = IF ok THEN NoStore ELSE store
            /\ aux' = [aux EXCEPT !.rm = IF ok THEN "removed" ELSE "failed"]
            /\ IF ok THEN pc' = "require" /\ UNCHANGED exitCode ELSE Exit(1)
     ELSE pc' = "require" /\ UNCHANGED <<store, aux, exitCode>>
  /\ UNCHANGED <<env, cmd, opts, project, hc, verifyMsg>>
  /\ UNCHANGED SetupVars

\* configure(), lines 561-566: with reset the store directory is removed; an
\* error of fs.rm is caught and dropped
ConfigureRm ==
  /\ pc = "configure"
  /\ IF ResetArg
     THEN \E ok \in BOOLEAN :
            /\ store' = IF ok THEN NoStore ELSE store
            /\ aux' = [aux EXCEPT !.rm = IF ok THEN "removed" ELSE "failed"]
     ELSE UNCHANGED <<store, aux>>
  /\ pc' = "require"
  /\ UNCHANGED <<env, cmd, opts, exitCode, project, hc, verifyMsg>>
  /\ UNCHANGED SetupVars

\* configure(), line 569: require('./create-mcp-ide.js') starts the wizard
ConfigureRequire ==
  /\ pc = "require"
  /\ pc' = "main"
  /\ UNCHANGED <<env, aux, cmd, opts, exitCode, store, project, hc, verifyMsg>>
  /\ UNCHANGED SetupVars

\* ------------------------------------------- configureSettings() on its own
\* how many times configureSettings() is called in a row
MaxCalls == 2

\* values of config.ide and config.useCase: the selectable ones, an absent
\* value and strings no question offers
IdeInputs == IdeChoices \cup {"undefined", "constructor"}
UseCaseInputs == UseCaseChoices \cup {"undefined", "constructor", "__proto__"}

\* a file some other tool left at the configuration path
ForeignDoc == [kind |-> "foreign", mode |-> "", servers |-> <<>>, sample |-> ""]

\* what the project directory may hold before the first call, for the
\* configuration directory dir
PriorProjects(dir) ==
  { NoProject,
    [NoProject EXCEPT !.dirs = {dir}],
    [NoProject EXCEPT !.dirs = {dir}, !.files[dir] = ConfigDoc("data")],
    [NoProject EXCEPT !.dirs = {dir}, !.files[dir] = ForeignDoc] }

ConfigureInit ==
  /\ env \in [version : {<<"v", "1", "8", ".", "0", ".", "0">>}]
  /\ aux = NoAux
  /\ cmd = "configureSettings"
  /\ opts = [vscode |-> FALSE, claude |-> FALSE]
  /\ pc = "call"
  /\ \E ide \in IdeInputs, useCase \in UseCaseInputs :
       /\ config = [EmptyConfig EXCEPT !.ide = ide, !.useCase = useCase]
       /\ project \in PriorProjects(getConfigPath(ide)[1])
  /\ reprompts = 0
  /\ i = 3
  /\ sub = ""
  /\ extIdx = 0
  /\ invoked = [k \in StepIds |-> 0]
  /\ status = [k \in StepIds |-> "pending"]
  /\ order = <<>>
  /\ prompts = <<>>
  /\ outcome = "none"
  /\ exitCode = NoExit
  /\ store = NoStore
  /\ hc = NoHealthCheck
  /\ verifyMsg = "none"

\* this.configureSettings() is called, as the step descriptor at line 157 does
CallConfigureSettings ==
  /\ pc = "call" /\ Len(aux.calls) < MaxCalls
  /\ status' = [status EXCEPT ![3] = "running"]
  /\ sub' = FirstSub(3)
  /\ pc' = "step"
  /\ UNCHANGED <<env, aux, cmd, opts, config, reprompts, i, extIdx, invoked, order,
                 prompts, outcome, exitCode, store, project, hc, verifyMsg>>

\* the call resolved or rejected; what it left at the configuration path is
\* noted and the next call may start
ConfigureSettingsDone ==
  /\ cmd = "configureSettings" /\ pc \in {"loop", "prompt"}
  /\ aux' = [aux EXCEPT !.calls =
               Append(@, [ok |-> status[3] = "ok",
                          doc |-> project.files[getConfigPath(config.ide)[1]]])]
  /\ i' = 3
  /\ pc' = "call"
  /\ UNCHANGED <<env, cmd, opts, config, reprompts, sub, extIdx, invoked, status, order,
                 prompts, outcome, exitCode, store, project, hc, verifyMsg>>

ConfigureNext ==
  \/ CallConfigureSettings
  \/ ConfigureMkdir
  \/ ConfigureWrite
  \/ ConfigureSettingsDone

ConfigureSpec == ConfigureInit /\ [][ConfigureNext]_vars

\* ------------------------------------------------------------ specification
Next ==
  \/ RunQuick
  \/ RunInteractive
  \/ DetectEnvironment
  \/ AskQuestions
  \/ AskKey
  \/ AskRejected
  \/ InstallBegin
  \/ StartStep
  \/ AnswerPrompt
  \/ PromptRejected
  \/ InstallReturn
  \/ InstallMCPIntelligence
  \/ InstallIDEExtensions
  \/ InstallExtension
  \/ ConfigureMkdir
  \/ ConfigureWrite
  \/ SetupAPIKeysCheck
  \/ SetupAPIKeysMkdir
  \/ SetupAPIKeysWrite
  \/ SetupAPIKeysChmod
  \/ CreateSampleProject
  \/ HealthCheckCommand
  \/ CheckNode
  \/ CheckVSCode
  \/ CheckClaudeExtension
  \/ CheckMCPGlobal
  \/ CheckMCPLocal
  \/ CheckAPIKeys
  \/ CheckNetwork
  \/ HealthCheckReturn
  \/ HealthCheckCommandExit
  \/ VerifySpawn
  \/ VerifyNotFound
  \/ VerifyResult
  \/ ShowNextSteps
  \/ RunReturn
  \/ ConfigureRm
  \/ ConfigureRequire

Spec == Init /\ [][Next]_vars

\* the event loop always runs the continuation that is ready, and the operator
\* answers every prompt
FairSpec == Spec /\ WF_vars(Next)

\* ------------------------------------------------------------------ claims
Answered(answer) == {n \in 1..Len(prompts) : prompts[n].answer = answer}

\* C1: when a step fails and the operator answers no to 'Continue anyway?',
\* no later step is ever invoked and the run has ended aborted with exit code 1
C1_DeclineAborts ==
  \A n \in Answered("no") :
    /\ status[prompts[n].step] = "failed"
    /\ \A k \in StepIds : k > prompts[n].step => invoked[k] = 0 /\ status[k] = "pending"
    /\ outcome = "aborted"
    /\ pc = "exited"
    /\ exitCode = 1

C1_Witness ==
  /\ \E n \in Answered("no") : prompts[n].step = 3
  /\ status[1] = "ok" /\ status[3] = "failed"
  /\ pc = "exited"

C3_Sequential ==
  /\ Len(order) <= 5
  /\ \A n \in 1..Len(order) :
       order[n] = << "Install MCP Intelligence", "Install IDE Extensions",
                     "Configure Settings", "Set up API Keys",
                     "Create Sample Project" >>[n]
  /\ \A k \in StepIds : invoked[k] <= 1 /\ (invoked[k] = 1 <=> status[k] # "pending")
  /\ Cardinality({k \in StepIds : status[k] = "running"}) <= 1
  /\ \A k \in StepIds :
       status[k] # "pending" =>
         \A j \in 1..(k - 1) :
           \/ status[j] = "ok"
           \/ status[j] = "failed"
              /\ \E n \in Answered("yes") : prompts[n].step = j

C3_Witness ==
  /\ status[1] = "failed" /\ status[2] = "ok" /\ status[3] = "failed"
  /\ status[4] = "ok" /\ status[5] = "running"

OldNode ==
  env.version \in { <<"v", "9", ".", "1", "1", ".", "2">>,
                    <<"v", "1", "7", ".", "9", ".", "9">> }

\* C4: a setup run, quick or interactive, on a Node.js whose major version is
\* below 18 invokes no installer step, issues no continue/abort prompt and
\* ends with a non-zero exit code
C4_OldNodeHalts ==
  (cmd = "setup" /\ OldNode) =>
    /\ \A k \in StepIds : invoked[k] = 0
    /\ prompts = <<>>
    /\ pc = "exited" => exitCode # 0

PipelineStarted == cmd = "setup" /\ i >= 1

C5_Outcomes ==
  (PipelineStarted /\ pc = "exited" /\ Answered("none") = {}) =>
    \/ /\ outcome = "completed"
       /\ \A k \in StepIds : invoked[k] = 1
       /\ Answered("no") = {}
       /\ exitCode = 0
    \/ /\ outcome = "aborted"
       /\ Answered("no") = {Len(prompts)}
       /\ status[prompts[Len(prompts)].step] = "failed"
       /\ exitCode = 1

\* C5: an installer pipeline run whose prompts are all answered ends, and it
\* ends either completed (all five steps invoked, exit code 0) or aborted (the
\* operator refused after a failure, exit code 1)
C5_TwoOutcomes ==
  /\ []C5_Outcomes
  /\ (PipelineStarted ~> pc = "exited")

C5_Witness ==
  /\ PipelineStarted /\ pc = "exited" /\ outcome = "completed"
  /\ status[5] = "failed" /\ Answered("yes") # {} /\ Answered("none") = {}

Returned == pc \in {"hcDone", "verifyResult"} \/ hc.exit # NoExit

\* C6: healthCheck calls each of the six checks once, in the declared order,
\* whatever the other checks return, and the report has one row per check in
\* that order
C6_AllChecksRun ==
  /\ \A c \in CheckIds :
       hc.calls[c] = IF c < hc.idx \/ (c = 4 /\ hc.idx = 4 /\ hc.queries = <<"global">>)
                     THEN 1 ELSE 0
  /\ Len(hc.report) <= 6
  /\ \A n \in 1..Len(hc.report) :
       hc.report[n].name = << "Node.js Version", "VS Code", "Claude Extension",
                              "MCP Intelligence", "API Keys", "Network" >>[n]
  /\ Len(hc.results) = Len(hc.report)
  /\ Returned => (Len(hc.report) = 6 /\ \A c \in CheckIds : hc.calls[c] = 1)

C6_Witness ==
  /\ Returned
  /\ ~hc.report[2].ok /\ ~hc.report[3].ok /\ hc.report[4].ok /\ hc.report[6].ok
  /\ Len(hc.report) = 6

\* C7: the value healthCheck returns is the conjunction of the six success
\* flags
C7_OverallIsConjunction ==
  Returned =>
    /\ Len(hc.results) = 6
    /\ hc.ret = JSBool(\A n \in 1..6 : Truthy(hc.results[n].success))

C7_Witness ==
  /\ Returned /\ hc.ret = JSBool(FALSE)
  /\ Truthy(hc.results[1].success) /\ ~Truthy(hc.results[4].success)
  /\ Truthy(hc.results[6].success)

\* C8: the health-check command exits with a non-zero code exactly when the
\* overall health is false, and verify() reports 'Health check passed' only
\* when every check succeeded
C8_ExitCodeReflectsHealth ==
  /\ hc.exit # NoExit => (hc.exit = 0 <=> hc.ret = JSBool(TRUE))
  /\ verifyMsg = "Health check passed" =>
       \A n \in 1..Len(hc.results) : Truthy(hc.results[n].success)

NonNull(x) == x.t \notin {"null", "undefined"}

KeysChecked == hc.idx > 5

\* C9 as stated: checkAPIKeys succeeds iff credentials.json exists, parses to
\* an object and its claude or its github member is non-null
C9_Original ==
  KeysChecked =>
    (Truthy(hc.results[5].success) <=>
       /\ store.file /\ store.text.wellFormed /\ store.text.root = "object"
       /\ (NonNull(store.text.claude) \/ NonNull(store.text.github)))

\* C9 amended: checkAPIKeys succeeds iff credentials.json exists, parses to an
\* object and its claude or its github member is truthy (neither null nor
\* absent nor the empty string); in every other case, a missing or malformed
\* file included, it returns the failure 'Not configured'
C9_KeysCheck ==
  KeysChecked =>
    /\ Truthy(hc.results[5].success) <=>
         /\ store.file /\ store.text.wellFormed /\ store.text.root = "object"
         /\ \/ store.text.claude.t = "string" /\ store.text.claude.v # <<>>
            \/ store.text.github.t = "string" /\ store.text.github.v # <<>>
    /\ hc.results[5].message.text =
         IF Truthy(hc.results[5].success) THEN "Configured" ELSE "Not configured"
    /\ hc.calls[5] = 1

C9_Witness ==
  /\ KeysChecked
  /\ store.file /\ store.text.root = "object"
  /\ store.text.claude = JSNull /\ store.text.github = JSStr(GitHubToken)
  /\ Truthy(hc.results[5].success)

C10_StoreHoldsSecret ==
  /\ store.by = "pipeline" =>
       /\ store.file /\ store.text.wellFormed /\ store.text.root = "object"
       /\ \/ store.text.claude.t = "string" /\ store.text.claude.v # <<>>
          \/ store.text.github.t = "string" /\ store.text.github.v # <<>>
       /\ Truthy(config.apiKey)
  /\ (status[4] = "ok" /\ ~Truthy(config.apiKey)) => store.by # "pipeline"

C11_OwnerOnly ==
  (store.file /\ store.by = "pipeline") => store.mode = OwnerOnly

KnownUseCases == {"web", "data", "enterprise"}

Written == Len(aux.calls) >= 1 /\ aux.calls[Len(aux.calls)].ok /\ pc = "call"

\* C12: for every useCase that is not web, data or enterprise, an absent one
\* and arbitrary strings included, getMCPServers returns the web server list,
\* which is what configureSettings() then writes
C12_FallbackToWeb ==
  (config.useCase \notin KnownUseCases /\ Written) =>
    project.files[getConfigPath(config.ide)[1]].servers =
      << [name |-> "filesystem", type |-> "fs", arg |-> "./"],
         [name |-> "npm", type |-> "package", arg |-> "npm"],
         [name |-> "git", type |-> "git", arg |-> "./"] >>

ExpectedPath ==
  CASE config.ide = "vscode" -> <<".vscode", "mcp-config.json">>
    [] config.ide = "jetbrains" -> <<".idea", "mcp-config.json">>
    [] config.ide = "cursor" -> <<".cursor", "mcp-config.json">>
    [] config.ide \in {"eclipse", "xcode", "neovim", "undefined", "constructor"} ->
         <<".mcp", "config.json">>

\* C13: getConfigPath maps vscode, jetbrains and cursor to their own paths and
\* every other editor value, an absent one included, to .mcp/config.json; the
\* document is written there and nowhere else
C13_ConfigPath ==
  /\ getConfigPath(config.ide) = ExpectedPath
  /\ Written =>
       /\ project.files[ExpectedPath[1]].kind = "config"
       /\ ExpectedPath[1] \in project.dirs
       /\ \A d \in ConfigDirs \ {ExpectedPath[1]} : project.files[d] = Absent

C13_Witness ==
  /\ Written /\ config.ide = "neovim"
  /\ project.files[".mcp"].kind = "config"

C15_QuickVerifies ==
  (cmd = "setup" /\ Quick /\ pc = "exited" /\ outcome = "completed") =>
    /\ config.ide = "vscode" /\ config.ai = "claude" /\ config.useCase = "web"
    /\ verifyMsg # "none"

C16_Store ==
  /\ (ResetArg /\ pc # "configure") => aux.rm \in {"removed", "failed"}
  /\ aux.rm = "removed" =>
       /\ store.by # "external"
       /\ status[4] = "pending" => store = NoStore
  /\ aux.rm = "failed" => (status[4] = "pending" => store = OldStore)
  /\ cmd = "configure" =>
       /\ aux.rm = "none"
       /\ status[4] = "pending" => store = OldStore
  /\ (cmd \in ConfigureCmds /\ pc \in {"configure", "require"}) => i = 0

\* C16: configure with reset, and the reset command, remove the store
\* directory before the wizard starts, so that no installer step finds the old
\* store; when the removal fails the wizard starts all the same; configure
\* without reset leaves the directory as it was
C16_ResetBeforeSetup ==
  /\ []C16_Store
  /\ [][pc = "configure" => pc' = "require"]_vars
  /\ [][pc = "require" => pc' = "main"]_vars

C16_Witness ==
  /\ cmd = "reset" /\ aux.rm = "removed"
  /\ pc = "step" /\ sub = "s4_mkdir" /\ store = NoStore

\* C17: every failure inside an installer step, a failing shell invocation of
\* the extension step included, opens a continue/abort prompt for that step,
\* and no step is run again
C17_FailuresSurfaced ==
  /\ \A k \in StepIds :
       status[k] = "failed" =>
         (pc = "prompt" /\ i = k) \/ \E n \in 1..Len(prompts) : prompts[n].step = k
  /\ (project.extFailed # {} /\ status[2] # "running") =>
       \E n \in 1..Len(prompts) : prompts[n].step = 2
  /\ \A k \in StepIds : invoked[k] <= 1

Failed == {k \in StepIds : status[k] = "failed"}

\* C18: as many prompts are issued as step actions failed: one per failure,
\* answered before a later step starts, none after a step that succeeded
C18_OnePromptPerFailure ==
  /\ Len(prompts) + (IF pc = "prompt" THEN 1 ELSE 0) = Cardinality(Failed)
  /\ \A n \in 1..Len(prompts) : prompts[n].step \in Failed
  /\ \A m, n \in 1..Len(prompts) : m < n => prompts[m].step < prompts[n].step
  /\ \A n \in 1..Len(prompts) : \A k \in StepIds :
       (k > prompts[n].step /\ status[k] # "pending") => prompts[n].answer = "yes"
  /\ pc = "prompt" =>
       /\ i \in Failed
       /\ \A n \in 1..Len(prompts) : prompts[n].step < i
       /\ \A k \in StepIds : k > i => status[k] = "pending"

C18_Witness ==
  /\ pc = "prompt" /\ i = 5 /\ Len(prompts) = 2
  /\ Failed = {1, 3, 5} /\ status[4] = "ok"

\* C19: every check returns a record whose success is a boolean and whose
\* message is a string, whatever its collaborators do, and no check throws
C19_BooleanResults ==
  /\ \A n \in 1..Len(hc.results) :
       /\ hc.results[n].success.t = "boolean"
       /\ hc.results[n].message.text # ""
  /\ \A c \in CheckIds : (hc.calls[c] = 1 /\ c < hc.idx) => Len(hc.results) >= c

\* C20: checkMCPIntelligence asks the global listing first and the local one
\* only after the global query failed; it succeeds iff one of the queries
\* succeeded and fails only after both were made and failed
C20_GlobalThenLocal ==
  /\ hc.queries \in {<<>>, <<"global">>, <<"global", "local">>}
  /\ Len(hc.answers) = Len(hc.queries)
  /\ Len(hc.queries) = 2 => ~hc.answers[1]
  /\ (hc.idx = 4 /\ hc.queries = <<"global">>) => ~hc.answers[1]
  /\ hc.idx > 4 =>
       /\ hc.queries # <<>>
       /\ Truthy(hc.results[4].success) <=> hc.answers[Len(hc.answers)]
       /\ ~Truthy(hc.results[4].success) =>
            hc.answers = <<FALSE, FALSE>> /\ hc.results[4].message.text = "Not installed"
       /\ hc.results[4].message.text =
            IF hc.answers[1] THEN "Installed"
            ELSE IF hc.answers[2] THEN "Installed (local)" ELSE "Not installed"

C20_Witness ==
  /\ hc.idx > 4 /\ hc.queries = <<"global", "local">>
  /\ hc.answers = <<FALSE, TRUE>>
  /\ Truthy(hc.results[4].success)

\* a health check started by verify() has run its credential-presence check
VerifiedKeys == hc.caller = "verify" /\ hc.idx > 5

C21_RoundTripState ==
  /\ (cmd # "health-check" /\ Truthy(config.apiKey) /\ status[4] = "ok") =>
       /\ store.by = "pipeline"
       /\ Truthy(checkAPIKeys(store).success)
       /\ VerifiedKeys =>
            Truthy(hc.results[5].success) /\ hc.results[5].message.text = "Configured"
  /\ (cmd # "health-check" /\ ~Truthy(config.apiKey) /\ ~store.file) =>
       /\ ~Truthy(checkAPIKeys(store).success)
       /\ VerifiedKeys =>
            ~Truthy(hc.results[5].success) /\ hc.results[5].message.text = "Not configured"

\* C21: after an installer run in which a credential was supplied and the
\* 'Set up API Keys' step succeeded, a health check of the store the run left
\* has its credential-presence check succeed; after a run with no credential
\* on a machine with no store, the run creates none and that check fails; the
\* health check itself never changes the store
C21_RoundTrip ==
  /\ []C21_RoundTripState
  /\ [][(pc # "configure" /\ ~Truthy(config.apiKey)) => (store' = store)]_vars
  /\ [][(pc \in {"hc", "hcDone"}) => (store' = store)]_vars

C21_Witness ==
  /\ cmd = "setup" /\ VerifiedKeys
  /\ config.apiKey = JSStr(KeyGood) /\ status[4] = "ok"
  /\ store.text = JSONStringify([claude |-> JSStr(KeyGood), github |-> JSNull])
  /\ Truthy(hc.results[5].success)

C21_WitnessNoKey ==
  /\ cmd = "setup" /\ VerifiedKeys
  /\ config.apiKey = JSStr(<<>>) /\ status[4] = "ok" /\ store = NoStore
  /\ ~Truthy(hc.results[5].success)

====
